---- MODULE Spec2Model ----
(***************************************************************************)
(* A model of the retrieval core of rag-devops:                            *)
(*   - service/embedding_advance/embedding.py : the ingestion run          *)
(*     (force_update = setup_opensearch, process_documents, create_index)  *)
(*   - service/api_advance/api.py : the query service (search, health)     *)
(* The Index Store (OpenSearch), the embedder and the document directory    *)
(* are the environment: their answers are nondeterministic inputs.          *)
(*                                                                         *)
(* Three specifications share the store:                                   *)
(*   SpecQuery  : the query service answering requests on one event loop   *)
(*   SpecSetup  : setup_opensearch, step by step (wait loop, retry loop)   *)
(*   SpecIngest : repeated force_update runs, one action per function      *)
(***************************************************************************)
EXTENDS Naturals, Integers, Sequences, FiniteSets

(***************************************************************************)
(* Program constants                                                       *)
(***************************************************************************)
\* embedding.py:36  VECTOR_DIM = 1024
VECTOR_DIM == 1024
\* api.py:34  top_k: int = 3
top_k == 3
\* embedding.py:38  wait_for_opensearch(timeout=300)
timeout == 300
\* embedding.py:52  setup_opensearch(max_retries=5)
max_retries == 5
\* embedding.py:49 and :104  time.sleep(5)
SleepSeconds == 5

(***************************************************************************)
(* Bounds of the model                                                     *)
(***************************************************************************)
\* a dimension an embedder other than the configured one produces
OtherDim == 768
\* concurrent requests the query service holds
MaxReqs == 2
\* records the collection holds when the query service starts
MaxStored == 4
\* documents found under pdf_corpus
MaxDocs == 2
\* chunks one document splits into
MaxChunks == 2
\* force_update runs in a row
MaxRuns == 2
\* seconds one answered HTTP round trip takes at least (clock granularity)
RoundTrip == 1

VARIABLES
    \* ---- Index Store ----
    collExists,     \* the collection OPENSEARCH_INDEX exists
    collSchema,     \* its mapping (NoSchema while it does not exist)
    records,        \* the records it holds
    storeMode,      \* how the store endpoint behaves right now
    \* ---- query service (api.py) ----
    modelDim,       \* length of the vectors the api's SentenceTransformer produces
    reqs,           \* per request: the handler's position and what it did
    loopOwner,      \* the request whose handler holds the event loop, or NoReq
    \* ---- setup_opensearch (embedding.py) ----
    setPc,          \* position inside setup_opensearch
    elapsed,        \* time.time() - start_time inside wait_for_opensearch
    attempt,        \* the retry loop's attempt
    createIssued,   \* the current call sent indices.create
    setErr,         \* the exception the call raised
    \* ---- force_update (embedding.py) ----
    embedDim,       \* length of the vectors the HuggingFaceEmbedding produces
    pdf_corpus,     \* the documents under pdf_corpus, as discovered by glob
    ingPc,          \* position inside force_update
    run,            \* number of the current run
    documents,      \* the list process_documents returned
    log,            \* what the current run logged
    runErr,         \* the exception the current run raised
    history         \* per finished run: how it ended and what it wrote

storeVars == <<collExists, collSchema, records, storeMode>>
queryVars == <<modelDim, reqs, loopOwner>>
setupVars == <<setPc, elapsed, attempt, createIssued, setErr>>
ingestVars == <<embedDim, pdf_corpus, ingPc, run, documents, log, runErr, history>>
vars == <<storeVars, queryVars, setupVars, ingestVars>>

Min(a, b) == IF a < b THEN a ELSE b

(***************************************************************************)
(* Index Store                                                             *)
(***************************************************************************)
NoSchema == [dim |-> 0, space_type |-> "none", fields |-> {}]

\* the mapping setup_opensearch creates the collection with
mapping ==
    [dim |-> VECTOR_DIM, space_type |-> "cosinesimil",
     fields |-> {"embedding", "content", "metadata"}]

StoreModes == {"up", "down", "non200", "hang"}

\* A record of the collection: written by run `run` from chunk `pos` of
\* document `doc`; `id` stands for the node id the write is keyed by.
Rec(r, d, p) == [id |-> <<r, d, p>>, run |-> r, doc |-> d, pos |-> p]

\* The store contents the query service may find: no collection, an empty
\* collection, or a collection of up to MaxStored records.
StoredSets == {{Rec(1, 1, p) : p \in 1..n} : n \in 0..MaxStored}

(***************************************************************************)
(* Query service: api.py                                                   *)
(***************************************************************************)
Reqs == 1..MaxReqs
NoReq == 0

\* queries as sequences of characters
Queries == {<<>>, <<" ">>, <<" ", " ">>, <<"a">>, <<" ", "a">>}

NoResp == [code |-> 0, keys |-> {}, results |-> {}, index_exists |-> FALSE]

IdleReq ==
    [kind |-> "none", phase |-> "idle", query |-> <<>>, vecDim |-> 0,
     embedCalled |-> FALSE, searchIssued |-> FALSE, exc |-> "none",
     sawExists |-> FALSE, sawEmpty |-> FALSE, resp |-> NoResp]

\* opensearch_client.search(index=INDEX_NAME, body=search_query): what the
\* store answers to a script_score search with a query vector of length qdim.
\* fault is the operational failure of this round trip, if any.
StoreSearch(exists, schema, recs, qdim, fault) ==
    IF fault = "conn" THEN {[exc |-> "ConnectionError", hits |-> {}]}
    ELSE IF fault = "engine" THEN {[exc |-> "TransportError", hits |-> {}]}
    ELSE IF ~exists THEN {[exc |-> "NotFoundError", hits |-> {}]}
    ELSE IF qdim # schema.dim
        THEN {[exc |-> "RequestError", hits |-> {}]}
             \cup (IF recs = {} THEN {[exc |-> "none", hits |-> {}]} ELSE {})
    ELSE {[exc |-> "none", hits |-> h] :
             h \in {s \in SUBSET recs : Cardinality(s) = Min(top_k, Cardinality(recs))}}

\* a handler without the RequestError clause: every failure is a 500
SearchStatusAllServer(exc) == 500

\* the except clauses of search: RequestError first, then Exception
SearchStatus(exc) == IF exc = "RequestError" THEN 400 ELSE 500

ErrorResp(code) ==
    [code |-> code, keys |-> {"detail"}, results |-> {}, index_exists |-> FALSE]

\* return {"results": results}
SearchResp(hits) ==
    [code |-> 200, keys |-> {"results"}, results |-> hits, index_exists |-> FALSE]

\* a request arrives; its handler is scheduled on the event loop
Arrive(r) ==
    /\ reqs[r].phase = "idle"
    /\ \E k \in {"search", "health"}, q \in Queries :
         /\ k = "health" => q = <<>>
         /\ reqs' = [reqs EXCEPT ![r] = [IdleReq EXCEPT !.kind = k,
                                            !.phase = "arrived", !.query = q]]
    /\ UNCHANGED <<loopOwner, modelDim, storeVars, setupVars, ingestVars>>

\* search, up to the call of model.encode: the coroutine runs on the event
\* loop and calls the embedder synchronously
SearchBegin(r) ==
    /\ reqs[r].phase = "arrived"
    /\ reqs[r].kind = "search"
    /\ loopOwner = NoReq
    /\ loopOwner' = r
    /\ reqs' = [reqs EXCEPT ![r].phase = "embedding", ![r].embedCalled = TRUE]
    /\ UNCHANGED <<modelDim, storeVars, setupVars, ingestVars>>

\* model.encode returns (or raises); the handler builds the search query
\* and calls opensearch_client.search synchronously
SearchEmbedded(r) ==
    /\ reqs[r].phase = "embedding"
    /\ loopOwner = r
    /\ \E embedFails \in BOOLEAN :
         IF embedFails
         THEN /\ reqs' = [reqs EXCEPT ![r].phase = "done",
                                      ![r].exc = "RuntimeError",
                                      ![r].resp = ErrorResp(SearchStatus("RuntimeError"))]
              /\ loopOwner' = NoReq
         ELSE /\ reqs' = [reqs EXCEPT ![r].phase = "searching",
                                      ![r].vecDim = modelDim,
                                      ![r].searchIssued = TRUE]
              /\ UNCHANGED loopOwner
    /\ UNCHANGED <<modelDim, storeVars, setupVars, ingestVars>>

\* opensearch_client.search returns (or raises); results are shaped and returned
SearchAnswered(r) ==
    /\ reqs[r].phase = "searching"
    /\ loopOwner = r
    /\ \E fault \in {"none", "conn", "engine"} :
       \E out \in StoreSearch(collExists, collSchema, records, reqs[r].vecDim, fault) :
         reqs' = [reqs EXCEPT
                    ![r].phase = "done",
                    ![r].exc = out.exc,
                    ![r].sawExists = (fault = "none" /\ collExists),
                    ![r].sawEmpty = (fault = "none" /\ records = {}),
                    ![r].resp = IF out.exc = "none" THEN SearchResp(out.hits)
                                ELSE ErrorResp(SearchStatus(out.exc))]
    /\ loopOwner' = NoReq
    /\ UNCHANGED <<modelDim, storeVars, setupVars, ingestVars>>

\* health_check, up to its first synchronous call of the store
HealthBegin(r) ==
    /\ reqs[r].phase = "arrived"
    /\ reqs[r].kind = "health"
    /\ loopOwner = NoReq
    /\ loopOwner' = r
    /\ reqs' = [reqs EXCEPT ![r].phase = "probing"]
    /\ UNCHANGED <<modelDim, storeVars, setupVars, ingestVars>>

\* cluster.health, indices.exists and get_mapping return (or one raises)
HealthAnswered(r) ==
    /\ reqs[r].phase = "probing"
    /\ loopOwner = r
    /\ \E fault \in {"none", "conn"} :
         reqs' = [reqs EXCEPT
                    ![r].phase = "done",
                    ![r].exc = IF fault = "none" THEN "none" ELSE "ConnectionError",
                    ![r].resp = IF fault = "none"
                                THEN [code |-> 200,
                                      keys |-> {"status", "opensearch_status",
                                                "index_exists", "mapping"},
                                      results |-> {},
                                      index_exists |-> collExists]
                                ELSE ErrorResp(503)]
    /\ loopOwner' = NoReq
    /\ UNCHANGED <<modelDim, storeVars, setupVars, ingestVars>>

\* the response has been sent; the slot takes the next request
Respond(r) ==
    /\ reqs[r].phase = "done"
    /\ reqs' = [reqs EXCEPT ![r] = IdleReq]
    /\ UNCHANGED <<loopOwner, modelDim, storeVars, setupVars, ingestVars>>

\* the values the variables of the other components rest at
SetupIdle ==
    /\ setPc = "idle" /\ elapsed = 0 /\ attempt = 0
    /\ createIssued = FALSE /\ setErr = "none"

IngestIdle ==
    /\ embedDim = VECTOR_DIM /\ pdf_corpus = <<>> /\ ingPc = "idle" /\ run = 0
    /\ documents = <<>> /\ log = {} /\ runErr = "none" /\ history = <<>>

QueryIdle ==
    /\ modelDim = VECTOR_DIM
    /\ reqs = [r \in Reqs |-> IdleReq]
    /\ loopOwner = NoReq

InitQuery ==
    /\ \/ collExists = FALSE /\ collSchema = NoSchema /\ records = {}
       \/ collExists = TRUE /\ collSchema = mapping /\ records \in StoredSets
    /\ storeMode = "up"
    /\ modelDim \in {VECTOR_DIM, OtherDim}
    /\ reqs = [r \in Reqs |-> IdleReq]
    /\ loopOwner = NoReq
    /\ SetupIdle
    /\ IngestIdle

NextQuery ==
    \E r \in Reqs :
        \/ Arrive(r)
        \/ SearchBegin(r)
        \/ SearchEmbedded(r)
        \/ SearchAnswered(r)
        \/ HealthBegin(r)
        \/ HealthAnswered(r)
        \/ Respond(r)

SpecQuery == InitQuery /\ [][NextQuery]_vars

(***************************************************************************)
(* setup_opensearch, step by step: embedding.py                            *)
(***************************************************************************)
\* a setup that skips the indices.exists check and always creates
NeedsCreateAlways(exists) == TRUE

\* if not client.indices.exists(OPENSEARCH_INDEX)
NeedsCreate(exists) == ~exists

\* client.indices.create(index, body=mapping) as the store answers it: an
\* existing collection is left as it is and the request is refused
indices_create(exists, schema) ==
    IF exists THEN [exc |-> "RequestError", exists |-> TRUE, schema |-> schema]
    ELSE [exc |-> "none", exists |-> TRUE, schema |-> mapping]

\* the except clause of the retry loop: ConnectionError (ConnectionTimeout is
\* one) and NewConnectionError are retried, anything else propagates
IsRetried(exc) == exc \in {"ConnectionError", "ConnectionTimeout"}

\* setup_opensearch is called
setup_call ==
    /\ setPc = "idle"
    /\ setPc' = "wait"
    /\ elapsed' = 0
    /\ attempt' = 0
    /\ createIssued' = FALSE
    /\ setErr' = "none"
    /\ UNCHANGED <<storeVars, queryVars, ingestVars>>

\* one iteration of wait_for_opensearch's loop: requests.get(OPENSEARCH_ENDPOINT)
\* has no timeout, so while the store accepts the connection and does not
\* answer there is no step to take
wait_iter ==
    /\ setPc = "wait"
    /\ elapsed < timeout
    /\ storeMode # "hang"
    /\ CASE storeMode = "up" ->
              \* status_code == 200: return True
              /\ setPc' = "connect"
              /\ elapsed' = 0
         [] storeMode = "non200" ->
              \* any other status: the loop goes round without sleeping
              /\ elapsed' = elapsed + RoundTrip
              /\ UNCHANGED setPc
         [] storeMode = "down" ->
              \* except: time.sleep(5)
              /\ elapsed' = elapsed + SleepSeconds
              /\ UNCHANGED setPc
    /\ UNCHANGED <<attempt, createIssued, setErr, storeVars, queryVars, ingestVars>>

\* the loop condition fails: raise TimeoutError
wait_timeout ==
    /\ setPc = "wait"
    /\ elapsed >= timeout
    /\ setPc' = "raised"
    /\ setErr' = "TimeoutError"
    /\ elapsed' = 0
    /\ UNCHANGED <<attempt, createIssued, storeVars, queryVars, ingestVars>>

\* an exception inside the retry loop's try block
attempt_raises(exc) ==
    IF IsRetried(exc) /\ attempt # max_retries - 1
    THEN /\ attempt' = attempt + 1
         /\ UNCHANGED <<setPc, setErr>>
    ELSE /\ setPc' = "raised"
         /\ setErr' = exc
         /\ attempt' = 0

\* one attempt of the retry loop: the client is built, indices.exists is
\* asked and, if it says no, indices.create is sent
connect_attempt ==
    /\ setPc = "connect"
    /\ CASE storeMode = "down" ->
              /\ attempt_raises("ConnectionError")
              /\ UNCHANGED <<createIssued, collExists, collSchema>>
         [] storeMode = "hang" ->
              \* the client's own request timeout ends the call
              /\ attempt_raises("ConnectionTimeout")
              /\ UNCHANGED <<createIssued, collExists, collSchema>>
         [] storeMode = "non200" ->
              /\ attempt_raises("TransportError")
              /\ UNCHANGED <<createIssued, collExists, collSchema>>
         [] storeMode = "up" ->
              IF ~NeedsCreate(collExists)
              THEN /\ setPc' = "returned"
                   /\ UNCHANGED <<attempt, setErr, createIssued, collExists, collSchema>>
              ELSE /\ createIssued' = TRUE
                   /\ \E link \in {"ok", "request_lost", "response_lost"} :
                        LET ans == indices_create(collExists, collSchema) IN
                        CASE link = "request_lost" ->
                                 /\ attempt_raises("ConnectionError")
                                 /\ UNCHANGED <<collExists, collSchema>>
                          [] link = "response_lost" ->
                                 /\ attempt_raises("ConnectionTimeout")
                                 /\ collExists' = ans.exists
                                 /\ collSchema' = ans.schema
                          [] link = "ok" ->
                                 /\ collExists' = ans.exists
                                 /\ collSchema' = ans.schema
                                 /\ IF ans.exc = "none"
                                    THEN /\ setPc' = "returned"
                                         /\ UNCHANGED <<attempt, setErr>>
                                    ELSE attempt_raises(ans.exc)
    /\ UNCHANGED <<elapsed, records, storeMode, queryVars, ingestVars>>

\* the caller has the client, or the exception, and may call again
setup_exit ==
    /\ setPc \in {"returned", "raised"}
    /\ setPc' = "idle"
    /\ UNCHANGED <<elapsed, attempt, createIssued, setErr, storeVars, queryVars, ingestVars>>

\* the store endpoint changes its behaviour
StoreChange ==
    /\ storeMode' \in StoreModes \ {storeMode}
    /\ UNCHANGED <<collExists, collSchema, records, queryVars, setupVars, ingestVars>>

SetupStep == setup_call \/ wait_iter \/ wait_timeout \/ connect_attempt \/ setup_exit

InitSetup ==
    /\ \/ collExists = FALSE /\ collSchema = NoSchema /\ records = {}
       \/ collExists = TRUE /\ collSchema = mapping /\ records \in StoredSets
    /\ storeMode \in StoreModes
    /\ QueryIdle
    /\ SetupIdle
    /\ IngestIdle

NextSetup == SetupStep \/ StoreChange

SpecSetup == InitSetup /\ [][NextSetup]_vars

\* the process is a running thread: it takes its next step if it has one again
\* and again; the store owes nothing
FairSpecSetup == SpecSetup /\ SF_vars(SetupStep)

(***************************************************************************)
(* force_update, one action per function: embedding.py                     *)
(***************************************************************************)
\* a file under pdf_corpus: read_pdf succeeds on it or raises, and its text
\* splits into `chunks` nodes
DocKinds ==
    {[ok |-> FALSE, chunks |-> 1]} \cup {[ok |-> TRUE, chunks |-> c] : c \in 0..MaxChunks}

Corpora == UNION {[1..n -> DocKinds] : n \in 0..MaxDocs}

RECURSIVE SelectIdx(_, _)
\* the indices i <= n of the documents read_pdf succeeds on, in order
SelectIdx(corpus, n) ==
    IF n = 0 THEN <<>>
    ELSE IF corpus[n].ok THEN Append(SelectIdx(corpus, n - 1), n)
    ELSE SelectIdx(corpus, n - 1)

\* a loop that appends the document whether or not read_pdf raised
LoadedDocsAll(corpus) == [i \in 1..Len(corpus) |-> i]

\* the loop of process_documents: a document is appended when read_pdf
\* returns, and skipped (continue) when it raises
LoadedDocs(corpus) == SelectIdx(corpus, Len(corpus))

\* what that loop logs with logger.error, one line per document that failed
SkipLog(corpus) ==
    {[msg |-> "Error processing", arg |-> i] : i \in {j \in 1..Len(corpus) : ~corpus[j].ok}}

RECURSIVE NodesOf(_, _)
\* splitter.get_nodes_from_documents: the chunks of the loaded documents, in order
NodesOf(corpus, docs) ==
    IF docs = <<>> THEN <<>>
    ELSE NodesOf(corpus, SubSeq(docs, 1, Len(docs) - 1))
         \o [p \in 1..corpus[docs[Len(docs)]].chunks |-> <<docs[Len(docs)], p>>]

\* node ids derived from the document and the position alone
NodeIdStable(r, d, p) == <<0, d, p>>

\* every node gets a fresh id when it is created, so no two runs share one
NodeId(r, d, p) == <<r, d, p>>

NewRecord(r, d, p) == [id |-> NodeId(r, d, p), run |-> r, doc |-> d, pos |-> p]

\* the store's write of a batch: a record replaces the one with its id, if any
store_write(recs, batch) ==
    {x \in recs : \A y \in batch : y.id # x.id} \cup batch

\* the first j nodes as records of run r
Batch(r, nodes, j) == {NewRecord(r, nodes[i][1], nodes[i][2]) : i \in 1..j}

\* force_update is called
force_update_call ==
    /\ ingPc = "idle"
    /\ run < MaxRuns
    /\ run' = run + 1
    /\ ingPc' = "setup"
    /\ documents' = <<>>
    /\ log' = {}
    /\ runErr' = "none"
    /\ createIssued' = FALSE
    /\ UNCHANGED <<embedDim, pdf_corpus, history, storeVars, queryVars,
                   setPc, elapsed, attempt, setErr>>

\* the except clause of force_update: log and raise
run_raises(exc) ==
    /\ ingPc' = "raised"
    /\ runErr' = exc

\* setup_opensearch, as a whole: it returns a client, the collection created
\* if it was absent, or raises (TimeoutError from the wait, or what the last
\* attempt raised). createIssued records a create request that reached the store.
setup_opensearch ==
    /\ ingPc = "setup"
    /\ \E exc \in {"none", "TimeoutError", "ConnectionError", "ConnectionTimeout",
                  "TransportError"} :
       \E created \in BOOLEAN :
         /\ created => NeedsCreate(collExists)
         /\ (exc = "none" /\ NeedsCreate(collExists)) => created
         /\ exc = "TimeoutError" => ~created
         /\ createIssued' = created
         /\ IF created
            THEN LET ans == indices_create(collExists, collSchema) IN
                 /\ collExists' = ans.exists
                 /\ collSchema' = ans.schema
                 /\ IF exc = "none" /\ ans.exc # "none"
                    THEN run_raises(ans.exc) /\ UNCHANGED log
                    ELSE IF exc = "none"
                    THEN /\ ingPc' = "process"
                         /\ log' = log \cup {[msg |-> "Created index", arg |-> 0]}
                         /\ UNCHANGED runErr
                    ELSE run_raises(exc) /\ UNCHANGED log
            ELSE /\ UNCHANGED <<collExists, collSchema, log>>
                 /\ IF exc = "none"
                    THEN ingPc' = "process" /\ UNCHANGED runErr
                    ELSE run_raises(exc)
    /\ UNCHANGED <<embedDim, pdf_corpus, run, documents, history, records, storeMode,
                   queryVars, setPc, elapsed, attempt, setErr>>

\* process_documents, and force_update's test of its result
process_documents ==
    /\ ingPc = "process"
    /\ documents' = LoadedDocs(pdf_corpus)
    /\ LET loaded == {[msg |-> "Loaded documents", arg |-> Len(documents')]} IN
       IF documents' = <<>>
       THEN \* logger.error("No documents found to process"); return
            /\ log' = log \cup SkipLog(pdf_corpus) \cup loaded
                          \cup {[msg |-> "No documents found to process", arg |-> 0]}
            /\ ingPc' = "returned"
       ELSE /\ log' = log \cup SkipLog(pdf_corpus) \cup loaded
            /\ ingPc' = "index"
    /\ UNCHANGED <<embedDim, pdf_corpus, run, runErr, history, storeVars, queryVars,
                   setupVars>>

\* create_index, and the end of force_update
create_index ==
    /\ ingPc = "index"
    /\ LET nodes == NodesOf(pdf_corpus, documents)
           dim == embedDim
           created == {[msg |-> "Created nodes", arg |-> Len(nodes)]}
       IN
       IF dim # VECTOR_DIM
       THEN \* raise ValueError before any client is built
            /\ run_raises("ValueError")
            /\ log' = log \cup created
            /\ UNCHANGED records
       ELSE \E fault \in {"none", "write", "pickle"} :
              CASE fault = "write" ->
                     \* the store fails while the nodes are written
                     \E j \in 0..Len(nodes) :
                        /\ j < Len(nodes) \/ Len(nodes) = 0
                        /\ records' = store_write(records, Batch(run, nodes, j))
                        /\ run_raises("ConnectionError")
                        /\ log' = log \cup created
                [] fault = "pickle" ->
                     \* pickle.dump raises once everything is written
                     /\ records' = store_write(records, Batch(run, nodes, Len(nodes)))
                     /\ run_raises("PicklingError")
                     /\ log' = log \cup created
                [] fault = "none" ->
                     /\ records' = store_write(records, Batch(run, nodes, Len(nodes)))
                     /\ ingPc' = "returned"
                     /\ UNCHANGED runErr
                     /\ log' = log \cup created
                              \cup {[msg |-> "Force update completed successfully",
                                     arg |-> 0]}
    /\ UNCHANGED <<embedDim, pdf_corpus, run, documents, history, collExists, collSchema,
                   storeMode, queryVars, setupVars>>

\* how a finished run ended
RunOutcome ==
    IF ingPc = "raised" THEN "raised"
    ELSE IF [msg |-> "Force update completed successfully", arg |-> 0] \in log
    THEN "success"
    ELSE "nodocs"

\* the run is over: the process exits
force_update_exit ==
    /\ ingPc \in {"returned", "raised"}
    /\ history' = Append(history, RunOutcome)
    /\ ingPc' = "idle"
    /\ UNCHANGED <<embedDim, pdf_corpus, run, documents, log, runErr, storeVars,
                   queryVars, setupVars>>

InitIngest ==
    /\ collExists = FALSE /\ collSchema = NoSchema /\ records = {}
    /\ storeMode = "up"
    /\ QueryIdle
    /\ SetupIdle
    /\ embedDim \in {VECTOR_DIM, OtherDim}
    /\ pdf_corpus \in Corpora
    /\ ingPc = "idle" /\ run = 0 /\ documents = <<>> /\ log = {}
    /\ runErr = "none" /\ history = <<>>

NextIngest ==
    \/ force_update_call
    \/ setup_opensearch
    \/ process_documents
    \/ create_index
    \/ force_update_exit

SpecIngest == InitIngest /\ [][NextIngest]_vars

(***************************************************************************)
(* Properties                                                              *)
(***************************************************************************)
\* a query that is empty or whitespace only
IsBlank(q) == \A i \in 1..Len(q) : q[i] = " "

SearchDone(r) == reqs[r].kind = "search" /\ reqs[r].phase = "done"

BadDocs == {i \in 1..Len(pdf_corpus) : ~pdf_corpus[i].ok}

GoodNodes == NodesOf(pdf_corpus, SelectIdx(pdf_corpus, Len(pdf_corpus)))

Logged(m) == \E e \in log : e.msg = m

\* C1: a vector whose length differs from VECTOR_DIM is never used: the
\* ingestion run writes no record with such an embedder, and search issues
\* no similarity search with such a vector.
C1_MismatchedVectorNeverUsed ==
    /\ embedDim # VECTOR_DIM => \A x \in records : x.run = 0
    /\ \A r \in Reqs :
         (reqs[r].kind = "search" /\ reqs[r].embedCalled /\ modelDim # VECTOR_DIM)
             => ~reqs[r].searchIssued

\* C2: an empty or whitespace-only query is rejected with a client error and
\* neither the embedder nor the store search is invoked for it.
C2_BlankQueryRejected ==
    \A r \in Reqs :
        (reqs[r].kind = "search" /\ IsBlank(reqs[r].query)) =>
            /\ ~reqs[r].embedCalled
            /\ ~reqs[r].searchIssued
            /\ reqs[r].phase = "done" => reqs[r].resp.code \in 400..499

\* C3: a search answered by a store whose collection is missing or empty
\* completes with an empty result list, never an error, and carries a status
\* telling "no index" from "no matches".
C3_EmptySearchSemantics ==
    \A r \in Reqs :
        (SearchDone(r) /\ reqs[r].sawEmpty /\ reqs[r].vecDim = VECTOR_DIM) =>
            /\ reqs[r].resp.code = 200
            /\ reqs[r].resp.results = {}
            /\ "status" \in reqs[r].resp.keys

\* C4: a failed search is answered 400 exactly when the store refused the
\* request (RequestError) and 500 for every other failure; a vector of the
\* wrong length searched in a populated collection is such a 400.
C4_ErrorCategories ==
    \A r \in Reqs :
        SearchDone(r) =>
            /\ reqs[r].exc = "none" <=> reqs[r].resp.code = 200
            /\ reqs[r].exc # "none" =>
                 /\ reqs[r].resp.code \in {400, 500}
                 /\ reqs[r].resp.code = 400 <=> reqs[r].exc = "RequestError"
            /\ (reqs[r].sawExists /\ ~reqs[r].sawEmpty /\ reqs[r].vecDim # VECTOR_DIM)
                 => reqs[r].resp.code = 400

\* C4 witness: one search failed with 400 on a RequestError while another
\* failed with 500 on an operational error.
C4_Witness ==
    \E r, q \in Reqs :
        /\ SearchDone(r) /\ reqs[r].exc = "RequestError" /\ reqs[r].resp.code = 400
        /\ SearchDone(q) /\ reqs[q].exc = "ConnectionError" /\ reqs[q].resp.code = 500

\* C5: once the collection exists, no step of setup_opensearch sends a create
\* request or changes the schema or the records; an attempt the store answers
\* returns the client without an error, and no call ever fails for the
\* collection being there; an existing collection has the schema of `mapping`.
C5_EnsureCollectionIdempotent ==
    [][ /\ collExists =>
              /\ collExists' /\ collSchema' = collSchema /\ records' = records
              /\ createIssued' => createIssued
              /\ (setPc = "connect" /\ storeMode = "up" /\ setPc' # "connect")
                    => (setPc' = "returned" /\ setErr' = "none")
              /\ setPc' = "raised" => setErr' # "RequestError"
        /\ collExists' => collSchema' = mapping
      ]_vars

\* C5 witness: a call made on an existing, populated collection returned
\* without a create request.
C5_Witness ==
    /\ setPc = "returned" /\ ~createIssued
    /\ collExists /\ collSchema = mapping /\ records # {}

\* C6: every call of setup_opensearch ends, returning a client for an existing
\* collection or raising; the wait stops once the budget is spent and at most
\* max_retries attempts are made.
C6_ReadinessTerminates ==
    /\ [](setPc = "returned" => collExists)
    /\ [](setPc = "wait" => elapsed < timeout + SleepSeconds)
    /\ [](attempt < max_retries)
    /\ (setPc \in {"wait", "connect"}) ~> (setPc \in {"returned", "raised"})

\* C7: with M < N unreadable documents the run goes on past them: the loaded
\* documents are the N-M readable ones, one skip is logged per unreadable
\* document, no record derives from an unreadable document, and a run that
\* succeeds has written every chunk of the readable documents.
C7_PartialFailureResilience ==
    LET N == Len(pdf_corpus)
        M == Cardinality(BadDocs)
    IN  M < N =>
          /\ Logged("Loaded documents") =>
               /\ documents = SelectIdx(pdf_corpus, N)
               /\ Len(documents) = N - M
               /\ [msg |-> "Loaded documents", arg |-> N - M] \in log
               /\ {e.arg : e \in {x \in log : x.msg = "Error processing"}} = BadDocs
               /\ ~Logged("No documents found to process")
               /\ ingPc \in {"index", "returned", "raised", "idle"}
               /\ runErr # "none" => Logged("Created nodes")
          /\ \A x \in records : x.doc \notin BadDocs
          /\ (ingPc = "returned" /\ RunOutcome = "success") =>
               {<<x.doc, x.pos>> : x \in {y \in records : y.run = run}}
                   = {GoodNodes[i] : i \in 1..Len(GoodNodes)}

\* C7 witness: a run over two documents, one unreadable, succeeded and wrote
\* the readable one's chunks.
C7_Witness ==
    /\ Len(pdf_corpus) = 2 /\ Cardinality(BadDocs) = 1
    /\ ingPc = "returned" /\ RunOutcome = "success"
    /\ \E x \in records : x.run = run

\* C8: a run that discovers no documents writes nothing, reports it, does not
\* end as a successful run ends, and leaves no collection it created, still
\* empty, behind.
C8_NoDocumentsNoWork ==
    (Len(pdf_corpus) = 0 /\ ingPc \in {"returned", "raised"} /\ Logged("Loaded documents")) =>
        /\ \A x \in records : x.run # run
        /\ Logged("No documents found to process")
        /\ RunOutcome # "success"
        /\ ~(createIssued /\ collExists /\ records = {})

\* C9: runs only append: no step removes or changes a record or the schema,
\* and after k runs that all succeeded the collection holds k*c records, c
\* the number of chunks of the source directory.
C9_RepeatedRunsAppend ==
    [][ /\ records \subseteq records'
        /\ collExists => (collExists' /\ collSchema' = collSchema)
        /\ (ingPc' = "idle" /\ \A i \in 1..Len(history') : history'[i] = "success")
              => Cardinality(records') = Len(history') * Len(GoodNodes)
      ]_vars

\* C9 witness: two runs over a directory of at least two chunks succeeded.
C9_Witness ==
    /\ ingPc = "idle" /\ history = <<"success", "success">>
    /\ Len(GoodNodes) >= 2
    /\ Cardinality(records) = 2 * Len(GoodNodes)

\* C10: while one search waits for the embedder or the store, a call that has
\* arrived can take its next step.
C10_NoCallBlocksAnother ==
    \A r, q \in Reqs :
        (r # q /\ reqs[r].phase \in {"embedding", "searching"} /\ reqs[q].phase = "arrived")
            => ENABLED (SearchBegin(q) \/ HealthBegin(q))

====
